---- MODULE Spec2Model ----
(***************************************************************************)
(* Physics sandbox of kurdt1967/p-s: src/src/script.js (the spawn/clear    *)
(* sandbox) and src/unnamed/part_000 (the launch variant).                 *)
(*                                                                         *)
(* Lengths, velocities and audio volumes are fixed-point numbers with      *)
(* Scale units per 1.0; time is counted in units of 1/240 s, so that the   *)
(* two fixed steps 1/60 and 1/80 are the integers 4 and 3.  The draws of   *)
(* Math.random() are chosen so that every product the code forms (x 0.5,   *)
(* x 0.2, x 1.5, / 2) is exact in this representation, as x 0.5 and / 2    *)
(* are in IEEE doubles.                                                    *)
(***************************************************************************)
EXTENDS Integers, Sequences, FiniteSets, TLC

VARIABLES
    variant,          \* which script is loaded: "sandbox" or "launch"
    objectsToUpdate,  \* the registry: sequence of [mesh, body] references
    world,            \* world.bodies: ids of the bodies added to the world
    scene,            \* scene.children restricted to meshes: ids of meshes
    bodies,           \* heap of CANNON.Body objects, by id
    meshes,           \* heap of THREE.Mesh objects, by id
    nextId,           \* identity of the next object pair to be constructed
    accumulator,      \* world.accumulator (left-over time of world.step)
    hitSound,         \* the Audio element: volume, currentTime, playing
    lastOp,           \* the operation that produced this state
    lastReq,          \* arguments of the factory call of lastOp (or NoReq)
    substeps,         \* internal sub-steps performed by lastOp, a tick
    collision,        \* the collide event dispatched by lastOp (or NoCollision)
    plays,            \* hitSound.play() calls made by lastOp
    pendingFrames,    \* callbacks queued with window.requestAnimationFrame
    worldConfig,      \* gravity, broadphase, allowSleep, contact material
    settings,         \* launch variant: the object behind the GUI controls
    launches,         \* launch variant: calls of settings.launch so far
    twin              \* launch variant: the ball of a second run of the same
                      \* operations, whose airResistance is the opposite one

\* the state of the frame loop and of the world's configuration
loopVars == <<pendingFrames, worldConfig>>

\* the state that only the launch variant has
launchVars == <<settings, launches, twin>>

vars == <<variant, objectsToUpdate, world, scene, bodies, meshes, nextId,
          accumulator, hitSound, lastOp, lastReq, substeps, collision, plays,
          pendingFrames, worldConfig, settings, launches, twin>>

(***************************************************************************)
(* Bounds of the model.                                                    *)
(***************************************************************************)
MaxSpawns == 2     \* factory calls in one run
MaxLaunches == 2   \* calls of settings.launch in one run

(***************************************************************************)
(* Fixed-point helpers.                                                    *)
(***************************************************************************)
Scale == 8 * 10

\* a * (num / den), for the decimal literals of the source
Times(a, num, den) == (a * num) \div den

Min(a, b) == IF a <= b THEN a ELSE b

Vec3(x, y, z) == <<x, y, z>>

\* THREE.Quaternion() / CANNON.Quaternion(): identity, in 1/1000
QIdentity == <<0, 0, 0, 1000>>

\* setFromAxisAngle((1, 0, 0), PI / 2) = (sin(PI/4), 0, 0, cos(PI/4))
QRotX90 == <<707, 0, 0, 707>>

\* setFromAxisAngle((-1, 0, 0), PI / 2)
QRotXNeg90 == <<-707, 0, 0, 707>>

\* an orientation produced by the integrator for a body that has moved
QTumbled == <<0, 0, 707, 707>>

Zero3 == <<0, 0, 0>>

NoCollision == [body |-> -1, impact |-> 0]

NoReq == [kind |-> "none", radius |-> 0, width |-> 0, height |-> 0, depth |-> 0,
          position |-> Zero3]

(***************************************************************************)
(* Math.random(): one handler call consumes up to five draws.              *)
(***************************************************************************)
Draws == { <<0, 0, 0, 0, 0>>, <<20, 16, 60, 0, 70>> }

\* the draw of hitSound.volume = Math.random()
VolumeDraws == {40}

\* frame deltas read from the clock, in 1/240 s: none, one frame at 60 Hz
\* (80 Hz in the launch variant), and a stalled frame
Deltas(v) == IF v = "sandbox" THEN {0, 4, 40} ELSE {0, 3, 30}

\* impact velocities along the contact normal: 1.0, 1.5, 2.0
ImpactVelocities == {Scale, Times(Scale, 15, 10), 2 * Scale}

(***************************************************************************)
(* Sounds.                                                                 *)
(***************************************************************************)
ImpactThreshold == 120    \* 1.5

\* length of hit.mp3, in the units of currentTime
AudioDuration == 1 + 1

\* new Audio('/sounds/hit.mp3')
NewAudio == [volume |-> Scale, currentTime |-> 0, playing |-> FALSE]

\* hitSound.volume = rnd; hitSound.currentTime = 0; hitSound.play()
Restarted(rnd) == [volume |-> rnd, currentTime |-> 0, playing |-> TRUE]

\* playHitSound without hitSound.currentTime = 0: a sound that is playing
\* plays on from where it is
playHitSoundPlaysOn(snd, impactStrength, rnd) ==
    IF impactStrength > ImpactThreshold
    THEN [sound |-> [volume |-> rnd,
                     currentTime |-> IF snd.playing THEN snd.currentTime ELSE 0,
                     playing |-> TRUE],
          played |-> 1]
    ELSE [sound |-> snd, played |-> 0]

\* playHitSound with the comparison >= in place of >
playHitSoundGE(snd, impactStrength, rnd) ==
    IF impactStrength >= ImpactThreshold
    THEN [sound |-> Restarted(rnd), played |-> 1]
    ELSE [sound |-> snd, played |-> 0]

\* the collide listener: the sound after the call, and the play() calls made
playHitSound(snd, impactStrength, rnd) ==
    IF impactStrength > ImpactThreshold
    THEN [sound |-> Restarted(rnd), played |-> 1]
    ELSE [sound |-> snd, played |-> 0]

\* body.dispatchEvent({type: 'collide', ...}): the listeners of the body run
DispatchCollide(snd, body, impactStrength, rnd) ==
    IF "playHitSound" \in body.listeners
    THEN playHitSound(snd, impactStrength, rnd)
    ELSE [sound |-> snd, played |-> 0]

(***************************************************************************)
(* Physics world.                                                          *)
(***************************************************************************)
FloorId == 0

MeshOf(position, quaternion, scale, geometry) ==
    [position |-> position, quaternion |-> quaternion, scale |-> scale,
     geometry |-> geometry]

BodyOf(mass, position, quaternion, shape, listeners) ==
    [mass |-> mass, position |-> position, quaternion |-> quaternion,
     velocity |-> Zero3, angularVelocity |-> Zero3, shape |-> shape,
     listeners |-> listeners]

ShapeOf(type, radius, halfExtents, height) ==
    [type |-> type, radius |-> radius, halfExtents |-> halfExtents,
     height |-> height]

\* floorBody: a static plane, rotated to face up
FloorBody == BodyOf(0, Zero3, QRotXNeg90, ShapeOf("Plane", 0, Zero3, 0), {})

GeometryOf(type, radius, width, height, depth) ==
    [type |-> type, radius |-> radius, width |-> width, height |-> height,
     depth |-> depth]

\* gridHelper, which stands for the untracked children of the scene
GridHelper == MeshOf(Zero3, QIdentity, Vec3(Scale, Scale, Scale),
                     GeometryOf("Grid", 0, 10 * Scale, 0, 10 * Scale))

\* new THREE.SphereGeometry(1, 20, 20), shared by all spheres
sphereGeometry == GeometryOf("Sphere", Scale, 0, 0, 0)

\* new THREE.BoxGeometry(1, 1, 1), shared by all boxes
boxGeometry == GeometryOf("Box", 0, Scale, Scale, Scale)

\* position given to the CANNON.Body constructor by createSphere / createBox
BodyStart == Vec3(0, 3 * Scale, 0)

Mass1 == Scale

(***************************************************************************)
(* Object factory.                                                         *)
(***************************************************************************)
\* createSphere whose mesh is left at the origin
SphereMeshAtOrigin(radius, position) ==
    MeshOf(Zero3, QIdentity, Vec3(radius, radius, radius), sphereGeometry)

\* the mesh built by createSphere
SphereMesh(radius, position) ==
    MeshOf(position, QIdentity, Vec3(radius, radius, radius), sphereGeometry)

\* the body built by createSphere
SphereBody(radius, position) ==
    LET body == BodyOf(Mass1, BodyStart, QIdentity,
                       ShapeOf("Sphere", radius, Zero3, 0), {})
    IN [body EXCEPT !.position = position,
                    !.listeners = @ \cup {"playHitSound"}]

\* the mesh built by createBox
BoxMesh(width, height, depth, position) ==
    MeshOf(position, QIdentity, Vec3(width, height, depth), boxGeometry)

\* new CANNON.Box with the full sizes passed as half extents
BoxShapeFull(width, height, depth) ==
    ShapeOf("Box", 0, Vec3(width, height, depth), 0)

\* new CANNON.Box(new CANNON.Vec3(width * 0.5, height * 0.5, depth * 0.5))
BoxShape(width, height, depth) ==
    ShapeOf("Box", 0,
            Vec3(Times(width, 5, 10), Times(height, 5, 10), Times(depth, 5, 10)),
            0)

\* the body built by createBox
BoxBody(width, height, depth, position) ==
    LET body == BodyOf(Mass1, BodyStart, QIdentity,
                       BoxShape(width, height, depth), {})
    IN [body EXCEPT !.position = position,
                    !.listeners = @ \cup {"playHitSound"}]

\* adjustedRadius = radius * 0.2
AdjustedRadius(radius) == Times(radius, 2, 10)

\* adjustedHeight = height * 0.5
AdjustedHeight(height) == Times(height, 5, 10)

\* the offset taken as half the requested height
CylinderPositionHalfHeight(height, position) ==
    [position EXCEPT ![2] = @ + height \div 2]

\* position.y += adjustedHeight / 2
CylinderPosition(height, position) ==
    [position EXCEPT ![2] = @ + AdjustedHeight(height) \div 2]

\* the mesh built by createCylinder
CylinderMesh(radius, height, position) ==
    MeshOf(CylinderPosition(height, position), QIdentity,
           Vec3(Scale, Scale, Scale),
           GeometryOf("Cylinder", AdjustedRadius(radius), 0,
                      AdjustedHeight(height), 0))

\* createCylinder with body.quaternion.copy(quaternion) left out
CylinderBodyUnrotated(radius, height, position) ==
    LET p == CylinderPosition(height, position)
    IN BodyOf(Mass1, Vec3(p[1], p[2], p[3]), QIdentity,
              ShapeOf("Cylinder", AdjustedRadius(radius), Zero3,
                      AdjustedHeight(height)), {})

\* the body built by createCylinder: no collide listener is added
CylinderBody(radius, height, position) ==
    LET p == CylinderPosition(height, position)
        body == BodyOf(Mass1, Vec3(p[1], p[2], p[3]), QIdentity,
                       ShapeOf("Cylinder", AdjustedRadius(radius), Zero3,
                               AdjustedHeight(height)), {})
    IN [body EXCEPT !.quaternion = QRotX90]

Req(kind, radius, width, height, depth, position) ==
    [kind |-> kind, radius |-> radius, width |-> width, height |-> height,
     depth |-> depth, position |-> position]

\* the bookkeeping shared by every operation other than tick
NoTickGhost == /\ substeps' = 0
               /\ collision' = NoCollision
               /\ plays' = 0

\* scene.add(mesh); world.addBody(body); objectsToUpdate.push({ mesh, body })
Track(mesh, body) ==
    /\ meshes' = meshes @@ (nextId :> mesh)
    /\ bodies' = bodies @@ (nextId :> body)
    /\ scene' = scene \cup {nextId}
    /\ world' = world \cup {nextId}
    /\ objectsToUpdate' = Append(objectsToUpdate, [mesh |-> nextId, body |-> nextId])
    /\ nextId' = nextId + 1

createSphere(radius, position) ==
    /\ Track(SphereMesh(radius, position), SphereBody(radius, position))
    /\ lastOp' = "createSphere"
    /\ lastReq' = Req("sphere", radius, 0, 0, 0, position)
    /\ NoTickGhost
    /\ UNCHANGED <<variant, accumulator, hitSound, loopVars, launchVars>>

createBox(width, height, depth, position) ==
    /\ Track(BoxMesh(width, height, depth, position),
             BoxBody(width, height, depth, position))
    /\ lastOp' = "createBox"
    /\ lastReq' = Req("box", 0, width, height, depth, position)
    /\ NoTickGhost
    /\ UNCHANGED <<variant, accumulator, hitSound, loopVars, launchVars>>

createCylinder(radius, height, position) ==
    /\ Track(CylinderMesh(radius, height, position),
             CylinderBody(radius, height, position))
    /\ lastOp' = "createCylinder"
    /\ lastReq' = Req("cylinder", radius, 0, height, 0, position)
    /\ NoTickGhost
    /\ UNCHANGED <<variant, accumulator, hitSound, loopVars, launchVars>>

\* (Math.random() - 0.5) * 3
SpawnCoord(rnd) == (rnd - Scale \div 2) * 3

\* debugObject.createSphere
DebugCreateSphere ==
    /\ variant = "sandbox"
    /\ nextId <= MaxSpawns
    /\ \E d \in Draws :
          createSphere(Times(d[1], 5, 10),
                       Vec3(SpawnCoord(d[2]), 3 * Scale, SpawnCoord(d[3])))

\* debugObject.createBox
DebugCreateBox ==
    /\ variant = "sandbox"
    /\ nextId <= MaxSpawns
    /\ \E d \in Draws :
          createBox(d[1], d[2], d[3],
                    Vec3(SpawnCoord(d[4]), 3 * Scale, SpawnCoord(d[5])))

\* debugObject.createCylinder
DebugCreateCylinder ==
    /\ variant = "sandbox"
    /\ nextId <= MaxSpawns
    /\ \E d \in Draws :
          createCylinder(Times(d[1], 5, 10) + Scale \div 2,
                         Times(d[2], 15, 10) + Scale \div 2,
                         Vec3(SpawnCoord(d[3]), 3 * Scale, SpawnCoord(d[4])))

(***************************************************************************)
(* Reset: the loop over objectsToUpdate, then the splice.                  *)
(***************************************************************************)
\* one iteration of the loop with scene.remove(object.mesh) left out
ResetOneKeepMesh(st, object) ==
    [bodies |-> [st.bodies EXCEPT ![object.body].listeners = @ \ {"playHitSound"}],
     world |-> st.world \ {object.body},
     scene |-> st.scene]

\* one iteration of the loop removing every body of the world
ResetOneEmptiesWorld(st, object) ==
    [bodies |-> [st.bodies EXCEPT ![object.body].listeners = @ \ {"playHitSound"}],
     world |-> {},
     scene |-> st.scene \ {object.mesh}]

\* one iteration of the loop with body.removeEventListener left out
ResetOneKeepListener(st, object) ==
    [bodies |-> st.bodies,
     world |-> st.world \ {object.body},
     scene |-> st.scene \ {object.mesh}]

\* one iteration of the loop of debugObject.reset, for the pair object
ResetOne(st, object) ==
    [bodies |-> [st.bodies EXCEPT ![object.body].listeners = @ \ {"playHitSound"}],
     world |-> st.world \ {object.body},
     scene |-> st.scene \ {object.mesh}]

RECURSIVE ResetFrom(_, _, _)
ResetFrom(st, objects, i) ==
    IF i > Len(objects) THEN st
    ELSE ResetFrom(ResetOne(st, objects[i]), objects, i + 1)

\* the for loop of debugObject.reset started at the second pair
ResetLoopSkipFirst(st, objects) == ResetFrom(st, objects, 2)

\* for (const object of objectsToUpdate) { ... }
ResetLoop(st, objects) == ResetFrom(st, objects, 1)

\* array.splice(start + 1, deleteCount): the first entry survives
SpliceFromSecond(array, start, deleteCount) ==
    SubSeq(array, 1, Min(start + 1, Len(array))) \o
    SubSeq(array, start + deleteCount + 2, Len(array))

\* array.splice(start, deleteCount), with start counted from 0
Splice(array, start, deleteCount) ==
    SubSeq(array, 1, start) \o SubSeq(array, start + deleteCount + 1, Len(array))

\* debugObject.reset
DebugReset ==
    /\ variant = "sandbox"
    /\ LET st == ResetLoop([bodies |-> bodies, world |-> world, scene |-> scene],
                           objectsToUpdate)
       IN /\ bodies' = st.bodies
          /\ world' = st.world
          /\ scene' = st.scene
    /\ objectsToUpdate' = Splice(objectsToUpdate, 0, Len(objectsToUpdate))
    /\ lastOp' = "reset"
    /\ lastReq' = NoReq
    /\ NoTickGhost
    /\ UNCHANGED <<variant, meshes, nextId, accumulator, hitSound, loopVars,
                   launchVars>>

(***************************************************************************)
(* world.step(dt, timeSinceLastCalled, maxSubSteps): the accumulator is    *)
(* consumed in sub-steps of dt, at most maxSubSteps of them.  The          *)
(* integrator itself is reduced to free fall onto the ground at y = 0,     *)
(* where a body stops and is left spinning.                                *)
(***************************************************************************)
FallPerStep == 4 * Scale

\* one fixed sub-step of one dynamic body
Integrate(b) ==
    LET v == [b.velocity EXCEPT ![2] = @ - FallPerStep]
        p == Vec3(b.position[1] + v[1], b.position[2] + v[2], b.position[3] + v[3])
    IN IF p[2] <= 0
       THEN [b EXCEPT !.position = Vec3(p[1], 0, p[3]), !.velocity = Zero3,
                      !.angularVelocity = Vec3(0, 0, -Scale),
                      !.quaternion = QTumbled]
       ELSE [b EXCEPT !.position = p, !.velocity = v, !.quaternion = QTumbled]

\* world.internalStep(dt): bodies of mass 0 are static
InternalStep(bs, w) ==
    [id \in DOMAIN bs |->
        IF id \in w /\ bs[id].mass > 0 THEN Integrate(bs[id]) ELSE bs[id]]

RECURSIVE InternalSteps(_, _, _)
InternalSteps(bs, w, n) ==
    IF n = 0 THEN bs ELSE InternalSteps(InternalStep(bs, w), w, n - 1)

WorldStep(bs, w, acc, dt, timeSinceLastCalled, maxSubSteps) ==
    LET total == acc + timeSinceLastCalled
        n == Min(maxSubSteps, total \div dt)
    IN [bodies |-> InternalSteps(bs, w, n),
        accumulator |-> (total - n * dt) % dt,
        substeps |-> n]

(***************************************************************************)
(* Launch variant: the ball, the ground and the GUI settings.              *)
(***************************************************************************)
\* launch variant: ball and ballBody at (-7, 1.25, 0), radius 0.25
BallStart == Vec3(-7 * Scale, Times(Scale, 125, 100), 0)

BallRadius == Times(Scale, 25, 100)

Ball == MeshOf(BallStart, QIdentity, Vec3(Scale, Scale, Scale),
               GeometryOf("Sphere", BallRadius, 0, 0, 0))

BallBody == BodyOf(Mass1, BallStart, QIdentity,
                   ShapeOf("Sphere", BallRadius, Zero3, 0), {})

\* launch variant: the visual ground plane and the static ground box
Ground == MeshOf(Zero3, QRotXNeg90, Vec3(Scale, Scale, Scale),
                 GeometryOf("Plane", 0, 15 * Scale, 5 * Scale, 0))

GroundBody == BodyOf(0, Vec3(0, -Times(Scale, 25, 100), 0), QIdentity,
                     ShapeOf("Box", 0,
                             Vec3(Times(Scale, 75, 10), Times(Scale, 25, 100),
                                  Times(Scale, 25, 10)), 0), {})

BallId == 1

\* settings, as written in the script
DefaultSettings ==
    [angle |-> 45, velocity |-> 6 * Scale, mass |-> Scale,
     launchHeight |-> Scale, airResistance |-> TRUE]

\* settings the sliders are moved to between two operations: the default
\* ones; angle 0, velocity 10, mass 1; angle 45, velocity 10, mass 4 and
\* launch height 2
SliderSettings ==
    { [angle |-> 45, velocity |-> 6 * Scale, mass |-> Scale, launchHeight |-> Scale],
      [angle |-> 0, velocity |-> 10 * Scale, mass |-> Scale, launchHeight |-> Scale],
      [angle |-> 45, velocity |-> 10 * Scale, mass |-> 4 * Scale,
       launchHeight |-> 2 * Scale] }

\* Math.cos and Math.sin of angle * PI / 180, in 1/1000
CosMilli(angle) == CASE angle = 0 -> 1000 [] angle = 45 -> 707

SinMilli(angle) == CASE angle = 0 -> 0 [] angle = 45 -> 707

\* Math.sqrt of a fixed-point number that is a perfect square
SqrtFixed(m) == CHOOSE r \in 0..(10 * Scale) : r * r = m * Scale

\* 1 / x
Reciprocal(x) == (Scale * Scale) \div x

\* speed * (1 / Math.sqrt(settings.mass))
AdjustedSpeed(st) == (st.velocity * Reciprocal(SqrtFixed(st.mass))) \div Scale

\* the velocity settings.launch computes from angle and speed
LaunchVelocity(st) ==
    Vec3((AdjustedSpeed(st) * CosMilli(st.angle)) \div 1000,
         (AdjustedSpeed(st) * SinMilli(st.angle)) \div 1000,
         0)

\* settings.launch adding the computed velocity to the body's velocity
LaunchBodyAdds(st, body) ==
    LET v == LaunchVelocity(st)
    IN [body EXCEPT !.mass = st.mass,
                    !.velocity = Vec3(@[1] + v[1], @[2] + v[2], @[3] + v[3])]

\* settings.launch with a drag factor of 0.9 applied when airResistance is on
LaunchBodyWithDrag(st, body) ==
    LET v == LaunchVelocity(st)
    IN [body EXCEPT !.mass = st.mass,
                    !.velocity = IF st.airResistance
                                 THEN Vec3(Times(v[1], 9, 10), Times(v[2], 9, 10), 0)
                                 ELSE v]

\* settings.launch: the effect on ballBody (mass, then velocity.set)
LaunchBody(st, body) ==
    [body EXCEPT !.mass = st.mass, !.velocity = LaunchVelocity(st)]

\* settings.reset with angularVelocity.set(0, 0, 0) left out
ResetBodyKeepsSpin(st, body) ==
    [body EXCEPT !.velocity = Zero3,
                 !.position = Vec3(-7 * Scale, st.launchHeight, 0)]

\* settings.reset: the effect on ballBody
ResetBody(st, body) ==
    [body EXCEPT !.velocity = Zero3,
                 !.angularVelocity = Zero3,
                 !.position = Vec3(-7 * Scale, st.launchHeight, 0)]

\* the second run: its ball, ball mesh and world accumulator
NewTwin == [body |-> BallBody, mesh |-> Ball, accumulator |-> 0]

\* the settings of the second run: the same but for airResistance
TwinSettings(st) == [st EXCEPT !.airResistance = ~@]

\* the bookkeeping shared by the operations of the launch variant
LaunchGhost(op) ==
    /\ lastOp' = op
    /\ lastReq' = NoReq
    /\ substeps' = 0
    /\ collision' = NoCollision
    /\ plays' = 0

\* settings.launch
SettingsLaunch ==
    /\ variant = "launch"
    /\ launches < MaxLaunches
    /\ bodies' = [bodies EXCEPT ![BallId] = LaunchBody(settings, bodies[BallId])]
    /\ twin' = [twin EXCEPT !.body = LaunchBody(TwinSettings(settings), twin.body)]
    /\ launches' = launches + 1
    /\ LaunchGhost("launch")
    /\ UNCHANGED <<variant, objectsToUpdate, world, scene, meshes, nextId,
                   accumulator, hitSound, loopVars, settings>>

\* settings.reset
SettingsReset ==
    /\ variant = "launch"
    /\ bodies' = [bodies EXCEPT ![BallId] = ResetBody(settings, bodies[BallId])]
    /\ twin' = [twin EXCEPT !.body = ResetBody(TwinSettings(settings), twin.body)]
    /\ LaunchGhost("settings.reset")
    /\ UNCHANGED <<variant, objectsToUpdate, world, scene, meshes, nextId,
                   accumulator, hitSound, loopVars, settings, launches>>

\* sliders of the GUI are moved; the second run moves them the same way
GuiSet ==
    /\ variant = "launch"
    /\ \E st \in SliderSettings :
          settings' = [angle |-> st.angle, velocity |-> st.velocity,
                       mass |-> st.mass, launchHeight |-> st.launchHeight,
                       airResistance |-> settings.airResistance]
    /\ LaunchGhost("gui")
    /\ UNCHANGED <<variant, objectsToUpdate, world, scene, bodies, meshes, nextId,
                   accumulator, hitSound, loopVars, launches, twin>>

\* the airResistance checkbox is toggled, in both runs
GuiSetAirResistance ==
    /\ variant = "launch"
    /\ settings' = [settings EXCEPT !.airResistance = ~@]
    /\ LaunchGhost("gui")
    /\ UNCHANGED <<variant, objectsToUpdate, world, scene, bodies, meshes, nextId,
                   accumulator, hitSound, loopVars, launches, twin>>

(***************************************************************************)
(* Animate.                                                                *)
(***************************************************************************)
\* 1 / 60 in script.js, 1 / 80 in the launch variant, in 1/240 s
FixedStep(v) == IF v = "sandbox" THEN 4 ELSE 3

\* tick calling world.step without the third argument (cannon's default 10)
TickStepDefaultCap(v, bs, w, acc, deltaTime) ==
    WorldStep(bs, w, acc, FixedStep(v), deltaTime, 10)

\* world.step(1 / 60, deltaTime, 3)
TickStep(v, bs, w, acc, deltaTime) ==
    WorldStep(bs, w, acc, FixedStep(v), deltaTime, 3)

\* the copy loop of tick with the quaternion copy left out
SyncMeshesPositionOnly(ms, bs, objects) ==
    [id \in DOMAIN ms |->
        IF \E i \in 1..Len(objects) : objects[i].mesh = id
        THEN LET o == objects[CHOOSE i \in 1..Len(objects) : objects[i].mesh = id]
             IN [ms[id] EXCEPT !.position = bs[o.body].position]
        ELSE ms[id]]

\* for (const object of objectsToUpdate) { mesh.position.copy(...); ... }
SyncMeshes(ms, bs, objects) ==
    [id \in DOMAIN ms |->
        IF \E i \in 1..Len(objects) : objects[i].mesh = id
        THEN LET o == objects[CHOOSE i \in 1..Len(objects) : objects[i].mesh = id]
             IN [ms[id] EXCEPT !.position = bs[o.body].position,
                               !.quaternion = bs[o.body].quaternion]
        ELSE ms[id]]

\* tick never calling window.requestAnimationFrame(tick)
TickNoReschedule(pending) == pending - 1

\* the frame callback is consumed, and window.requestAnimationFrame(tick)
\* queues the next one
TickReschedule(pending) == (pending - 1) + 1

\* tick, in the second run of the launch variant
TwinTick(tw, deltaTime) ==
    LET bs == (FloorId :> GroundBody) @@ (BallId :> tw.body)
        r == TickStep("launch", bs, {FloorId, BallId}, tw.accumulator, deltaTime)
        ms == SyncMeshes((BallId :> tw.mesh), r.bodies,
                         <<[mesh |-> BallId, body |-> BallId]>>)
    IN [tw EXCEPT !.body = r.bodies[BallId],
                  !.accumulator = r.accumulator,
                  !.mesh = ms[BallId]]

\* tick
Tick ==
    \E deltaTime \in Deltas(variant) :
      LET r == TickStep(variant, bodies, world, accumulator, deltaTime)
      IN /\ pendingFrames > 0
         /\ pendingFrames' = TickReschedule(pendingFrames)
         /\ twin' = IF variant = "launch" THEN TwinTick(twin, deltaTime) ELSE twin
         /\ bodies' = r.bodies
         /\ accumulator' = r.accumulator
         /\ substeps' = r.substeps
         /\ meshes' = SyncMeshes(meshes, r.bodies, objectsToUpdate)
         /\ lastOp' = "tick"
         /\ lastReq' = NoReq
         /\ collision' = NoCollision
         /\ plays' = 0
         /\ UNCHANGED <<variant, objectsToUpdate, world, scene, nextId, hitSound,
                        worldConfig, settings, launches>>

\* While stepping, the world dispatches a collide event to a body it holds.
\* The listeners touch the sound only and tick does not, so the dispatch is
\* a step of its own.  No listener is ever added to the floor body, so an
\* event dispatched to it runs no code of the script: the steps are the
\* events of the other bodies.
Collide ==
    variant = "sandbox" /\
    \E id \in world \ {FloorId}, impact \in ImpactVelocities, rnd \in VolumeDraws :
      LET r == DispatchCollide(hitSound, bodies[id], impact, rnd)
      IN /\ hitSound' = r.sound
         /\ plays' = r.played
         /\ collision' = [body |-> id, impact |-> impact]
         /\ lastOp' = "collide"
         /\ lastReq' = NoReq
         /\ substeps' = 0
         /\ UNCHANGED <<variant, objectsToUpdate, world, scene, bodies, meshes,
                        nextId, accumulator, loopVars, launchVars>>

\* the browser plays the sound on: currentTime advances until the end
AudioProgress ==
    /\ hitSound.playing
    /\ hitSound' = [hitSound EXCEPT
                      !.currentTime = @ + 1,
                      !.playing = (hitSound.currentTime + 1 < AudioDuration)]
    /\ lastOp' = "audio"
    /\ lastReq' = NoReq
    /\ NoTickGhost
    /\ UNCHANGED <<variant, objectsToUpdate, world, scene, bodies, meshes,
                   nextId, accumulator, loopVars, launchVars>>

(***************************************************************************)
(* The state after the script has been evaluated and the first tick, which *)
(* reads a delta of zero, has run.                                         *)
(***************************************************************************)
\* world.gravity.set(0, -9.82, 0), SAPBroadphase, allowSleep, and the
\* default contact material (friction 0.1, restitution 0.7): both scripts
WorldConfig ==
    [gravity |-> Vec3(0, -Times(Scale, 982, 100), 0), broadphase |-> "SAP",
     allowSleep |-> TRUE, friction |-> Times(Scale, 1, 10),
     restitution |-> Times(Scale, 7, 10)]

InitSandbox ==
    /\ variant = "sandbox"
    /\ twin = NewTwin
    /\ objectsToUpdate = <<>>
    /\ world = {FloorId}
    /\ scene = {FloorId}
    /\ bodies = (FloorId :> FloorBody)
    /\ meshes = (FloorId :> GridHelper)
    /\ nextId = 1

InitLaunch ==
    /\ variant = "launch"
    /\ twin = NewTwin
    /\ objectsToUpdate = <<[mesh |-> 1, body |-> 1]>>
    /\ world = {FloorId, 1}
    /\ scene = {FloorId, 1}
    /\ bodies = (FloorId :> GroundBody) @@ (1 :> BallBody)
    /\ meshes = (FloorId :> Ground) @@ (1 :> Ball)
    /\ nextId = 2

Init ==
    /\ InitSandbox \/ InitLaunch
    /\ accumulator = 0
    /\ hitSound = NewAudio
    /\ lastOp = "init"
    /\ lastReq = NoReq
    /\ substeps = 0
    /\ collision = NoCollision
    /\ plays = 0
    /\ pendingFrames = 1
    /\ worldConfig = WorldConfig
    /\ settings = DefaultSettings
    /\ launches = 0

Next ==
    \/ DebugCreateSphere
    \/ DebugCreateBox
    \/ DebugCreateCylinder
    \/ DebugReset
    \/ Tick
    \/ Collide
    \/ AudioProgress
    \/ SettingsLaunch
    \/ SettingsReset
    \/ GuiSet
    \/ GuiSetAirResistance

Spec == Init /\ [][Next]_vars

\* the browser runs a queued frame callback at the next frame
FairSpec == Spec /\ WF_vars(Tick)

(***************************************************************************)
(* Properties.                                                             *)
(***************************************************************************)
SpawnOps == {"createSphere", "createBox", "createCylinder"}

\* the bodies the factory has built: every one of them was tracked
Spawned == (DOMAIN bodies) \ {FloorId}

Tracked(id) ==
    \E i \in 1..Len(objectsToUpdate) : objectsToUpdate[i] = [mesh |-> id, body |-> id]

\* radius > 0; width, height, depth > 0
ValidReq(r) ==
    CASE r.kind = "sphere" -> r.radius > 0
      [] r.kind = "box" -> r.width > 0 /\ r.height > 0 /\ r.depth > 0
      [] r.kind = "cylinder" -> r.radius > 0 /\ r.height > 0
      [] OTHER -> FALSE

\* C1: after reset the registry is empty and no body the factory built (all
\* of which were tracked) is registered in the world.
C1_ClearLeavesNoBody ==
    lastOp = "reset" => /\ objectsToUpdate = <<>>
                        /\ world \cap Spawned = {}

\* a reset that removed two tracked pairs, one of them already stepped
C1_Witness ==
    /\ lastOp = "reset"
    /\ Cardinality(Spawned) >= 2
    /\ \E id \in Spawned : bodies[id].quaternion = QTumbled

\* C2: between operations, a built body is in the world iff its mesh is in
\* the scene iff the pair is in objectsToUpdate.
C2_TrackedPairInvariant ==
    \A id \in Spawned :
        /\ (id \in world) <=> (id \in scene)
        /\ (id \in world) <=> Tracked(id)

\* one pair removed by a reset, another one spawned afterwards and live
C2_Witness ==
    /\ \E id \in Spawned : id \notin world /\ id \notin scene /\ ~Tracked(id)
    /\ \E id \in Spawned : id \in world /\ id \in scene /\ Tracked(id)

\* C3: a valid spawn appends exactly one pair, keeps the existing entries in
\* order, and the new body and mesh are at the same position.
C3_SpawnAppendsOnePair ==
    [][(lastOp' \in SpawnOps /\ ValidReq(lastReq')) =>
          /\ Len(objectsToUpdate') = Len(objectsToUpdate) + 1
          /\ SubSeq(objectsToUpdate', 1, Len(objectsToUpdate)) = objectsToUpdate
          /\ LET o == objectsToUpdate'[Len(objectsToUpdate')]
             IN /\ o.body \notin DOMAIN bodies
                /\ o.mesh \notin DOMAIN meshes
                /\ bodies'[o.body].position = meshes'[o.mesh].position]_vars

\* a valid spawn made while the registry already held a pair
C3_Witness ==
    /\ lastOp \in SpawnOps
    /\ ValidReq(lastReq)
    /\ Len(objectsToUpdate) >= 2

\* C4: a spawn with a non-positive shape parameter is rejected: registry,
\* world and scene are unchanged by the call.
C4_InvalidSpawnRejected ==
    [][(lastOp' \in SpawnOps /\ ~ValidReq(lastReq')) =>
          /\ objectsToUpdate' = objectsToUpdate
          /\ world' = world
          /\ scene' = scene]_vars

\* C5: every spawn of the sandbox registers playHitSound on the new body,
\* so every tracked body carries the listener.
C5_EverySpawnRegistersListener ==
    variant = "sandbox" =>
        \A i \in 1..Len(objectsToUpdate) :
            "playHitSound" \in bodies[objectsToUpdate[i].body].listeners

\* C6: a collide event delivered to the listener plays the sound (restarted
\* at time zero) iff the impact is above 1.5; otherwise the audio state is
\* left as it was.
C6_PlaysIffAboveThreshold ==
    [][lastOp' = "collide" =>
          IF /\ "playHitSound" \in bodies[collision'.body].listeners
             /\ 10 * collision'.impact > 15 * Scale
          THEN /\ plays' = 1
               /\ hitSound'.playing
               /\ hitSound'.currentTime = 0
          ELSE /\ plays' = 0
               /\ hitSound' = hitSound]_vars

\* an impact of exactly 1.5 on a body with the listener, while the sound of
\* an earlier impact is still playing
C6_Witness ==
    /\ lastOp = "collide"
    /\ "playHitSound" \in bodies[collision.body].listeners
    /\ 10 * collision.impact = 15 * Scale
    /\ plays = 0
    /\ hitSound.playing

\* C7: a tick performs at most three sub-steps, in both variants.
C7_AtMostThreeSubSteps ==
    lastOp = "tick" => substeps <= 3

\* a tick after a stalled frame: the delta covers more than three sub-steps
C7_Witness ==
    /\ lastOp = "tick"
    /\ substeps = 3
    /\ Len(objectsToUpdate) >= 1

\* C8: at the end of a tick every tracked mesh has the position and the
\* orientation its body has after the world step of that tick.
C8_ProxyEqualsBodyAfterTick ==
    lastOp = "tick" =>
        \A i \in 1..Len(objectsToUpdate) :
            LET o == objectsToUpdate[i]
            IN /\ meshes[o.mesh].position = bodies[o.body].position
               /\ meshes[o.mesh].quaternion = bodies[o.body].quaternion

\* a tick that stepped the world and moved a tracked body
C8_Witness ==
    /\ lastOp = "tick"
    /\ substeps > 0
    /\ \E i \in 1..Len(objectsToUpdate) :
          /\ bodies[objectsToUpdate[i].body].quaternion = QTumbled
          /\ bodies[objectsToUpdate[i].body].position[2] = 0

\* the pair pushed by the last factory call
LastPair == objectsToUpdate[Len(objectsToUpdate)]

\* C9 as stated: the cylinder's body and mesh are placed at p.y + h / 2.
C9_OffsetHalfRequestedHeight ==
    lastOp = "createCylinder" =>
        LET p == lastReq.position
            at == Vec3(p[1], p[2] + lastReq.height \div 2, p[3])
        IN /\ meshes[LastPair.mesh].position = at
           /\ bodies[LastPair.body].position = at

\* C9, amended: the cylinder's body and mesh are placed at p.y + h / 4, half
\* the height h * 0.5 of the cylinder that is built.
C9_OffsetHalfAdjustedHeight ==
    lastOp = "createCylinder" =>
        LET p == lastReq.position
            at == Vec3(p[1], p[2] + lastReq.height \div 4, p[3])
        IN /\ 4 * (lastReq.height \div 4) = lastReq.height
           /\ meshes[LastPair.mesh].position = at
           /\ bodies[LastPair.body].position = at

\* a cylinder spawn of positive height
C9_Witness ==
    /\ lastOp = "createCylinder"
    /\ lastReq.height > 0
    /\ meshes[LastPair.mesh].position[2] > lastReq.position[2]

\* C10: a box spawn of positive sizes gives half extents (w/2, h/2, d/2)
\* and mesh scale (w, h, d); a unit box has half extents (0.5, 0.5, 0.5).
C10_BoxHalfExtents ==
    /\ (lastOp = "createBox" /\ ValidReq(lastReq)) =>
          LET he == bodies[LastPair.body].shape.halfExtents
          IN /\ 2 * he[1] = lastReq.width
             /\ 2 * he[2] = lastReq.height
             /\ 2 * he[3] = lastReq.depth
             /\ bodies[LastPair.body].shape.type = "Box"
             /\ meshes[LastPair.mesh].scale =
                   Vec3(lastReq.width, lastReq.height, lastReq.depth)
    /\ LET unit == BoxBody(Scale, Scale, Scale, Vec3(0, 3 * Scale, 0))
       IN unit.shape.halfExtents = Vec3(Scale \div 2, Scale \div 2, Scale \div 2)

\* a box spawn with three different positive sizes
C10_Witness ==
    /\ lastOp = "createBox"
    /\ ValidReq(lastReq)
    /\ lastReq.width # lastReq.height
    /\ lastReq.height # lastReq.depth

\* C11: launch sets the ball's mass to settings.mass and its velocity to
\* (s cos(angle), s sin(angle), 0) with s = speed / sqrt(mass), whatever the
\* velocity was; angle 0, velocity 10, mass 1 give (10, 0, 0).
C11_LaunchSetsMassAndVelocity ==
    lastOp = "launch" =>
        LET b == bodies[BallId]
        IN /\ b.mass = settings.mass
           /\ \E s \in 0..(10 * Scale) :
                 /\ s * s * settings.mass = settings.velocity * settings.velocity * Scale
                 /\ b.velocity = Vec3((s * CosMilli(settings.angle)) \div 1000,
                                      (s * SinMilli(settings.angle)) \div 1000,
                                      0)
           /\ (/\ settings.angle = 0
               /\ settings.velocity = 10 * Scale
               /\ settings.mass = Scale) => b.velocity = Vec3(10 * Scale, 0, 0)

\* a second launch, of a ball in the air, with angle 0, velocity 10, mass 1
C11_Witness ==
    /\ lastOp = "launch"
    /\ launches >= 2
    /\ bodies[BallId].position[2] > 0
    /\ settings.angle = 0
    /\ settings.velocity = 10 * Scale
    /\ settings.mass = Scale

C13_LoopKeepsRunning ==
    /\ [](pendingFrames = 1)
    /\ (lastOp = "reset") ~> (lastOp = "tick")

\* a tick that stepped and synchronized a pair spawned after a reset
C13_Witness ==
    /\ lastOp = "tick"
    /\ substeps > 0
    /\ \E old \in Spawned, new \in Spawned :
          /\ old < new
          /\ old \notin world
          /\ Tracked(new)
          /\ bodies[new].quaternion = QTumbled
          /\ meshes[new].quaternion = QTumbled

\* C14: only a spawn (which appends one new pair) and a reset (which empties
\* it) change the registry; a tick leaves it as it is, and its copy loop
\* covers exactly the pairs the registry held when the tick began: each of
\* their meshes takes the pose of its body, every other mesh is untouched.
\* Each handler is one step: it runs to completion before the next begins.
C14_RegistryChangedBySpawnAndClearOnly ==
    [][/\ objectsToUpdate' # objectsToUpdate =>
             \/ /\ lastOp' \in SpawnOps
                /\ Len(objectsToUpdate') = Len(objectsToUpdate) + 1
                /\ SubSeq(objectsToUpdate', 1, Len(objectsToUpdate)) = objectsToUpdate
             \/ /\ lastOp' = "reset"
                /\ objectsToUpdate' = <<>>
       /\ lastOp' = "reset" => objectsToUpdate' = <<>>
       /\ lastOp' = "tick" =>
             /\ objectsToUpdate' = objectsToUpdate
             /\ \A id \in DOMAIN meshes :
                   IF Tracked(id)
                   THEN /\ meshes'[id].position = bodies'[id].position
                        /\ meshes'[id].quaternion = bodies'[id].quaternion
                   ELSE meshes'[id] = meshes[id]]_vars

\* a tick that moved the one tracked pair to the ground, after an earlier
\* pair was cleared: the cleared pair's mesh keeps the pose it was built with
C14_Witness ==
    /\ lastOp = "tick"
    /\ substeps > 0
    /\ Len(objectsToUpdate) = 1
    /\ meshes[objectsToUpdate[1].mesh].position[2] = 0
    /\ \E id \in Spawned : /\ ~Tracked(id)
                           /\ meshes[id].quaternion = QIdentity
                           /\ meshes[id].position[2] > 0

\* C15: airResistance has no effect.  The second run applies the same
\* launches, resets, ticks (with the same deltas) and slider moves, with
\* airResistance always the opposite value; after every operation its ball
\* has the same position, velocity, angular velocity and mass, and its mesh
\* the same position and orientation, as those of the first run.
C15_AirResistanceHasNoEffect ==
    variant = "launch" =>
        LET mine == bodies[BallId]
            other == twin.body
        IN /\ TwinSettings(settings).airResistance # settings.airResistance
           /\ other.position = mine.position
           /\ other.velocity = mine.velocity
           /\ other.angularVelocity = mine.angularVelocity
           /\ other.mass = mine.mass
           /\ twin.mesh.position = meshes[BallId].position
           /\ twin.mesh.quaternion = meshes[BallId].quaternion

\* a tick that moved the ball after a launch of mass 4, the checkbox having
\* been cleared in the first run
C15_Witness ==
    /\ variant = "launch"
    /\ lastOp = "tick"
    /\ substeps > 0
    /\ launches >= 1
    /\ ~settings.airResistance
    /\ bodies[BallId].mass = 4 * Scale
    /\ bodies[BallId].velocity # Zero3
    /\ meshes[BallId].position # BallStart

\* C16: once reset has run, every pair it processed is out of the registry,
\* its body out of the world and without the playHitSound listener, its
\* mesh out of the scene; a collide event dispatched to such a body at any
\* later time, of any impact, plays nothing and leaves the sound as it is.
C16_ClearedBodiesAreSilent ==
    /\ lastOp = "reset" => \A id \in Spawned : ~Tracked(id)
    /\ \A id \in Spawned :
          ~Tracked(id) =>
              /\ id \notin world
              /\ id \notin scene
              /\ "playHitSound" \notin bodies[id].listeners
              /\ \A impact \in ImpactVelocities, rnd \in VolumeDraws :
                    LET r == DispatchCollide(hitSound, bodies[id], impact, rnd)
                    IN r.played = 0 /\ r.sound = hitSound

\* after a reset removed a sphere or a box (built with the listener), a
\* collision of a body spawned later has played the sound
C16_Witness ==
    /\ lastOp = "collide"
    /\ plays = 1
    /\ Tracked(collision.body)
    /\ \E id \in Spawned : /\ ~Tracked(id)
                           /\ id < collision.body
                           /\ bodies[id].shape.type \in {"Sphere", "Box"}

StartupFloor(v) == IF v = "sandbox" THEN FloorBody ELSE GroundBody

\* C18: the floor body stays registered in the world, is never tracked, and
\* keeps mass 0 and its pose; gravity, broadphase, sleeping and the default
\* contact material stay as configured at startup.
C18_FloorAndConfigurationKept ==
    /\ FloorId \in world
    /\ ~Tracked(FloorId)
    /\ \A i \in 1..Len(objectsToUpdate) : objectsToUpdate[i].body # FloorId
    /\ bodies[FloorId].mass = 0
    /\ bodies[FloorId] = StartupFloor(variant)
    /\ worldConfig.gravity = Vec3(0, -Times(Scale, 982, 100), 0)
    /\ worldConfig.friction = Times(Scale, 1, 10)
    /\ worldConfig.restitution = Times(Scale, 7, 10)
    /\ worldConfig = WorldConfig

\* a reset that removed two pairs, one of them stepped to the ground by a
\* tick, and left the floor alone in the world
C18_Witness ==
    /\ lastOp = "reset"
    /\ Cardinality(Spawned) >= 2
    /\ world = {FloorId}
    /\ scene = {FloorId}
    /\ \E id \in Spawned : bodies[id].position[2] = 0

\* C19 as stated: right after a spawn of any kind the new mesh has the
\* orientation of its body, and right after the launch variant's reset the
\* ball mesh is where the ball body is.
C19_ProxyAgreesAfterSpawnAndReset ==
    /\ lastOp \in SpawnOps =>
          meshes[LastPair.mesh].quaternion = bodies[LastPair.body].quaternion
    /\ lastOp = "settings.reset" =>
          meshes[BallId].position = bodies[BallId].position

\* C19, amended: a new sphere or box has the position and orientation of
\* its body; a new cylinder has the position of its body, which is turned a
\* quarter about x while the mesh is not turned; the launch variant's reset
\* moves the body to the launch point and leaves the mesh where it was; the
\* next tick makes position and orientation of every tracked pair agree.
C19_ProxyAgreesFromNextTick ==
    [][LET new == objectsToUpdate'[Len(objectsToUpdate')]
       IN /\ lastOp' \in {"createSphere", "createBox"} =>
                /\ meshes'[new.mesh].position = bodies'[new.body].position
                /\ meshes'[new.mesh].quaternion = bodies'[new.body].quaternion
          /\ lastOp' = "createCylinder" =>
                /\ meshes'[new.mesh].position = bodies'[new.body].position
                /\ meshes'[new.mesh].quaternion = QIdentity
                /\ bodies'[new.body].quaternion = QRotX90
          /\ lastOp' = "settings.reset" =>
                /\ meshes'[BallId] = meshes[BallId]
                /\ bodies'[BallId].position[1] = -7 * Scale
                /\ bodies'[BallId].position[2] = settings.launchHeight
                /\ bodies'[BallId].position[3] = 0
          /\ lastOp' = "tick" =>
                \A i \in 1..Len(objectsToUpdate') :
                    LET o == objectsToUpdate'[i]
                    IN /\ meshes'[o.mesh].position = bodies'[o.body].position
                       /\ meshes'[o.mesh].quaternion = bodies'[o.body].quaternion]_vars

\* a reset of a ball that a launch and a tick have moved: the body is back
\* at the launch point, the mesh still where the tick put it
C19_Witness ==
    /\ lastOp = "settings.reset"
    /\ launches >= 1
    /\ bodies[BallId].position[1] = -7 * Scale
    /\ meshes[BallId].position[1] > -7 * Scale
    /\ meshes[BallId].quaternion = QTumbled

====
